---- MODULE Spec2Model ----
(***************************************************************************)
(* Model of the FNL pipeline (src/src): segmentation of normalized lines   *)
(* into course blocks (normalizer.py), the schema repair passes            *)
(* (validator.py), the renderer (formatter.py), the forbidden-term filter  *)
(* (safety.py) and the orchestrator process_text (pipeline.py).            *)
(*                                                                         *)
(* A text is a sequence of characters; an ASCII character is the string of *)
(* that character ("J", "x", " "), any other character is named by its     *)
(* code point ("u5ea7" "u5e2d" is the two-character word for seat) and the *)
(* line feed is "NL".                                                      *)
(***************************************************************************)
EXTENDS Integers, Sequences, FiniteSets, TLC

VARIABLES
  \* find_course_blocks
  lines,      \* the argument: the normalized lines
  pos,        \* index of the line the for loop handles next
  cur,        \* the block under construction
  blocks,     \* the blocks sealed so far
  seg_pc,     \* "loop" | "done" ("idle" when find_course_blocks is not the program run)
  \* the repair sequence of validate_schema, run twice on one document
  r_orig,     \* the document as the extraction returned it
  r_doc,      \* the document, mutated in place by the passes
  r_once,     \* the document after the first run of the sequence
  r_pc,       \* <<round, next pass>>, or "idle"
  \* render_text on a document of one course
  rn_doc,     \* the argument
  rn_k,       \* index of the participant the loop handles next
  rn_lines,   \* out_lines
  rn_last,    \* the lines appended for the participant handled last
  rn_text,    \* the returned text
  rn_pc,      \* "course" | "participant" | "join" | "done", or "idle"
  \* process_text and main
  schema_loaded, \* whether pack/EXTRACT_SCHEMA.json was loaded (_schema, _validator)
  in_lines,   \* normalize_lines(raw)
  p_blocks,   \* blocks
  idx,        \* index of the block the loop handles (from 1)
  extracted,  \* the document of the current block
  all_courses,
  all_reviews,
  text,       \* the rendered text
  ret,        \* <<t>> once process_text has returned t, else <<>>
  error,      \* <<e>> once an exception e has left process_text, else <<>>
  stdout,     \* what main has printed
  calls,      \* the calls process_text has made, in order, with what they returned
  pc          \* "start" | "extract" | "validate" | "review" | "render" | "filter"
              \* | "Success" | "Fatal", or "idle"

seg_vars == <<lines, pos, cur, blocks, seg_pc>>
rep_vars == <<r_orig, r_doc, r_once, r_pc>>
rn_vars == <<rn_doc, rn_k, rn_lines, rn_last, rn_text, rn_pc>>
pl_vars == <<schema_loaded, in_lines, p_blocks, idx, extracted, all_courses, all_reviews,
             text, ret, error, stdout, calls, pc>>
vars == <<seg_vars, rep_vars, rn_vars, pl_vars>>

\* what a run of one program leaves alone: the state of the others
not_seg == <<rep_vars, rn_vars, pl_vars>>
not_rep == <<seg_vars, rn_vars, pl_vars>>
not_rn  == <<seg_vars, rep_vars, pl_vars>>
not_pl  == <<seg_vars, rep_vars, rn_vars>>

-----------------------------------------------------------------------------
(* Generic helpers *)

Range(s) == {s[i] : i \in 1..Len(s)}

RECURSIVE Flatten(_)
Flatten(ss) == IF ss = <<>> THEN <<>> ELSE Head(ss) \o Flatten(Tail(ss))

RECURSIVE KindIdx(_, _, _)
\* indices i >= from of the token sequence s whose token has the given kind, ascending
KindIdx(s, from, kind) ==
  IF from > Len(s) THEN <<>>
  ELSE IF s[from][1] = kind THEN <<from>> \o KindIdx(s, from + 1, kind)
       ELSE KindIdx(s, from + 1, kind)

-----------------------------------------------------------------------------
(* normalizer.py: find_course_blocks                                        *)
(* A normalized line is a sequence of tokens: <<"id", c>> is an occurrence  *)
(* of the course-identifier pattern with token c, <<"date", d>> an          *)
(* occurrence of \d{4}-\d{2}-\d{2}, <<"w">> any other text.                 *)

MaxLines == 4

TokId(c)   == <<"id", c>>
TokDate(d) == <<"date", d>>
TokW       == <<"w">>

LineSet ==
  { <<TokW>>,
    <<TokId(<<"A", "1">>)>>,
    <<TokId(<<"B", "2">>), TokW>>,
    <<TokDate("d1"), TokDate("d2")>>,
    <<TokDate("d3"), TokW, TokDate("d4")>>,
    <<TokDate("d5")>>,
    <<TokId(<<"A", "1">>), TokDate("d1"), TokDate("d2")>>,
    <<TokW, TokDate("d2"), TokDate("d1"), TokDate("d3")>> }

RECURSIVE SeqsUpTo(_, _)
SeqsUpTo(S, n) ==
  IF n = 0 THEN {<<>>}
  ELSE LET shorter == SeqsUpTo(S, n - 1)
       IN  shorter \cup {Append(s, x) : s \in {t \in shorter : Len(t) = n - 1}, x \in S}

\* re.search(r"(コースNo|Course)[:：]?\s*([A-Za-z0-9\-]+)", ln): the leftmost
\* occurrence; group(2) is never empty (the + quantifier). <<>> stands for None.
m_course(ln) ==
  LET ids == KindIdx(ln, 1, "id")
  IN  IF ids = <<>> THEN <<>> ELSE ln[ids[1]][2]

\* re.search(r"(\d{4}-\d{2}-\d{2}).*?(\d{4}-\d{2}-\d{2})", ln): the leftmost
\* date and the next date after it. <<>> stands for None.
m_period(ln) ==
  LET ds == KindIdx(ln, 1, "date")
  IN  IF Len(ds) < 2 THEN <<>>
      ELSE [start |-> ln[ds[1]][2], end |-> ln[ds[2]][2]]

EmptyPeriod == [start |-> "", end |-> ""]

NewBlock(courseNo) == [courseNo |-> courseNo, period |-> EmptyPeriod, lines |-> <<>>]

\* SealPrev without the test of normalizer.py 83
SealPrevUnguarded(bs, c) == Append(bs, c)

\* normalizer.py 82-84: the previous block is sealed only when it has a courseNo
SealPrev(bs, c) == IF c.courseNo # <<>> THEN Append(bs, c) ELSE bs

\* StartBlock that keeps the lines list of the previous block
StartBlockKeepLines(c, courseNo) == [NewBlock(courseNo) EXCEPT !.lines = c.lines]

\* normalizer.py 86-91: a new block starts empty
StartBlock(c, courseNo) == NewBlock(courseNo)

\* normalizer.py 93-99: a period match overwrites the period of a named block
SetPeriod(c, ln) ==
  IF m_period(ln) # <<>> /\ c.courseNo # <<>>
  THEN [c EXCEPT !.period = m_period(ln)]
  ELSE c

\* normalizer.py 101-104: header lines (no courseNo yet) are dropped
AddLine(c, ln) ==
  IF c.courseNo # <<>> THEN [c EXCEPT !.lines = Append(@, ln)] ELSE c

\* normalizer.py 80-104: what one iteration of the loop does to blocks and to cur
step_blocks(bs, c, ln) == IF m_course(ln) # <<>> THEN SealPrev(bs, c) ELSE bs

step_cur(c, ln) ==
  LET c1 == IF m_course(ln) # <<>> THEN StartBlock(c, m_course(ln)) ELSE c
  IN  AddLine(SetPeriod(c1, ln), ln)

\* seal_last without the test of normalizer.py 107
seal_last_unguarded(bs, c) == Append(bs, c)

\* normalizer.py 107-108: the last block is sealed when it has a courseNo and a line
seal_last(bs, c) == IF c.courseNo # <<>> /\ c.lines # <<>> THEN Append(bs, c) ELSE bs

RECURSIVE scan(_, _, _, _)
scan(ls, i, c, bs) ==
  IF i > Len(ls) THEN seal_last(bs, c)
  ELSE scan(ls, i + 1, step_cur(c, ls[i]), step_blocks(bs, c, ls[i]))

\* normalizer.py 54-110, as a function of its argument
find_course_blocks(ls) == scan(ls, 1, NewBlock(<<>>), <<>>)

\* one iteration of the for loop (normalizer.py 78-104)
SegLine ==
  /\ seg_pc = "loop"
  /\ pos <= Len(lines)
  /\ blocks' = step_blocks(blocks, cur, lines[pos])
  /\ cur' = step_cur(cur, lines[pos])
  /\ pos' = pos + 1
  /\ UNCHANGED <<lines, seg_pc, not_seg>>

\* after the loop (normalizer.py 106-110)
SegReturn ==
  /\ seg_pc = "loop"
  /\ pos > Len(lines)
  /\ blocks' = seal_last(blocks, cur)
  /\ seg_pc' = "done"
  /\ UNCHANGED <<lines, pos, cur, not_seg>>

-----------------------------------------------------------------------------
(* JSON values.  A scalar carries its Python type: Str(s) with s a sequence *)
(* of characters, Num(n), Null (None).  A dict is a function on a set of    *)
(* keys, a list is a sequence.                                              *)

Str(s) == <<"str", s>>
Num(n) == <<"int", n>>
Null   == <<"null">>

IsStr(v) == v[1] = "str"
IsNum(v) == v[1] = "int"
IsNull(v) == v[1] = "null"

\* Python truth value of a scalar
Truthy(v) ==
  CASE IsStr(v) -> v[2] # <<>>
    [] IsNum(v) -> v[2] # 0
    [] OTHER    -> FALSE

Has(d, k) == k \in DOMAIN d
\* d.get(k) for a key that holds a scalar
Get(d, k) == IF Has(d, k) THEN d[k] ELSE Null
\* d.pop(k, None) for each k of K
Drop(d, K) == [k \in DOMAIN d \ K |-> d[k]]
\* d[k] = v
Put(d, k, v) == [x \in DOMAIN d \cup {k} |-> IF x = k THEN v ELSE d[x]]
EmptyDict == [k \in {} |-> Null]

\* x or ""
OrEmpty(v) == IF Truthy(v) THEN v ELSE Str(<<>>)

Digits == <<"0", "1", "2", "3", "4", "5", "6", "7", "8", "9">>
DigitSet == Range(Digits)
\* Decimal digits outside ASCII, here the fullwidth digit two, and digits that
\* are not decimal, here the superscript two
WideDigits == {"uff12"}
SuperDigits == {"u00b2"}
DigitVal(c) == IF c \in WideDigits THEN 2 ELSE (CHOOSE i \in 1..10 : Digits[i] = c) - 1

\* str.isdigit(): every character is a digit, decimal or not
isdigit(s) ==
  s # <<>> /\ \A i \in 1..Len(s) : s[i] \in DigitSet \cup WideDigits \cup SuperDigits

\* whether int(s) returns for a string s of digits: it raises ValueError on a
\* digit that is not decimal
int_accepts(s) == \A i \in 1..Len(s) : s[i] \in DigitSet \cup WideDigits

RECURSIVE int(_)
\* int(s) of a string of decimal digits
int(s) == IF s = <<>> THEN 0 ELSE 10 * int(SubSeq(s, 1, Len(s) - 1)) + DigitVal(s[Len(s)])

RECURSIVE str_of_nat(_)
\* str(n) of an int n >= 0
str_of_nat(n) ==
  IF n < 10 THEN <<Digits[n + 1]>> ELSE str_of_nat(n \div 10) \o <<Digits[(n % 10) + 1]>>

\* doc.get("courses", []), course.get("participants", []) or [], p.get("optionalRQ", []) or []
ListOf(d, k) == IF Has(d, k) THEN d[k] ELSE <<>>

-----------------------------------------------------------------------------
(* validator.py: the repair passes *)

\* validator.py 27 and 33: int(v) of a digit string v
coerce_value(v) == IF IsStr(v) /\ isdigit(v[2]) THEN Num(int(v[2])) ELSE v

\* The outcome of a step of coerce_numeric_fields: the value it leaves, and
\* whether no exception has been raised so far. Once int() has raised, nothing
\* more is changed.
Out(val, ok) == [val |-> val, ok |-> ok]

\* validator.py 25-27 and 31-33: d[k] = int(d[k]) when d.get(k) is a digit string
coerce_slot(d, k, ok) ==
  IF ok /\ Has(d, k) /\ IsStr(d[k]) /\ isdigit(d[k][2])
  THEN IF int_accepts(d[k][2])
       THEN Out([d EXCEPT ![k] = coerce_value(@)], TRUE)
       ELSE Out(d, FALSE)
  ELSE Out(d, ok)

\* coerce_op that leaves pax as it is
coerce_op_skip(op, ok) == Out(op, ok)

\* validator.py 31-33
coerce_op(op, ok) == coerce_slot(op, "pax", ok)

RECURSIVE coerce_ops(_, _)
\* validator.py 30: for op in p.get("optionalRQ", []) or []
coerce_ops(ops, ok) ==
  IF ops = <<>> THEN Out(<<>>, ok)
  ELSE LET h == coerce_op(Head(ops), ok)
           t == coerce_ops(Tail(ops), h.ok)
       IN  Out(<<h.val>> \o t.val, t.ok)

\* validator.py 24-33: no first, then the pax of each optionalRQ entry
coerce_participant(p, ok) ==
  LET a == coerce_slot(p, "no", ok)
  IN  IF Has(p, "optionalRQ")
      THEN LET b == coerce_ops(p["optionalRQ"], a.ok)
           IN  Out([a.val EXCEPT !["optionalRQ"] = b.val], b.ok)
      ELSE a

RECURSIVE coerce_participants(_, _)
\* validator.py 23: for p in participants
coerce_participants(ps, ok) ==
  IF ps = <<>> THEN Out(<<>>, ok)
  ELSE LET h == coerce_participant(Head(ps), ok)
           t == coerce_participants(Tail(ps), h.ok)
       IN  Out(<<h.val>> \o t.val, t.ok)

\* validator.py 22-23: participants = course.get("participants", []) or []
coerce_course(course, ok) ==
  IF Has(course, "participants")
  THEN LET r == coerce_participants(course["participants"], ok)
       IN  Out([course EXCEPT !["participants"] = r.val], r.ok)
  ELSE Out(course, ok)

RECURSIVE coerce_courses(_, _)
\* validator.py 21: for course in courses
coerce_courses(cs, ok) ==
  IF cs = <<>> THEN Out(<<>>, ok)
  ELSE LET h == coerce_course(Head(cs), ok)
           t == coerce_courses(Tail(cs), h.ok)
       IN  Out(<<h.val>> \o t.val, t.ok)

\* validator.py 20-35: the run of coerce_numeric_fields on doc
coerce_run(doc) ==
  IF Has(doc, "courses")
  THEN LET r == coerce_courses(doc["courses"], TRUE)
       IN  Out([doc EXCEPT !["courses"] = r.val], r.ok)
  ELSE Out(doc, TRUE)

\* validator.py 14-35: the document as coerce_numeric_fields leaves it, whether
\* it returns or raises
coerce_numeric_fields(doc) == coerce_run(doc).val

\* validator.py 27, 33: int() raises ValueError in coerce_numeric_fields
coerce_numeric_raises(doc) == ~coerce_run(doc).ok

\* validator.py 51-53: participants nested in period move up to the course
hoist_participants(course) ==
  IF Has(course, "period") /\ Has(course["period"], "participants")
     /\ ~Has(course, "participants")
  THEN Put([course EXCEPT !["period"] = Drop(@, {"participants"})],
           "participants", course["period"]["participants"])
  ELSE course

alias_pairs == << <<"periodFrom", "periodTo">>,
                  <<"periodStart", "periodEnd">>,
                  <<"startDate", "endDate">> >>

AliasKeys == UNION {{alias_pairs[i][1], alias_pairs[i][2]} : i \in 1..Len(alias_pairs)}

RECURSIVE fold_alias(_, _, _, _)
\* validator.py 68-74: the value after alias pairs i.. have been looked at;
\* side is 1 for the start keys and 2 for the end keys
fold_alias(course, val, side, i) ==
  IF i > Len(alias_pairs) THEN val
  ELSE LET a == Get(course, alias_pairs[i][side])
       IN  fold_alias(course, IF Truthy(a) /\ ~Truthy(val) THEN a ELSE val, side, i + 1)

\* validator.py 57-59: the existing period is read first and has priority
period_seed(course, key) ==
  IF Has(course, "period") THEN Get(course["period"], key) ELSE Null

\* fold_period that ignores the existing period and always sets the folded one
fold_period_naive(course) ==
  LET start_val == fold_alias(course, Null, 1, 1)
      end_val   == fold_alias(course, Null, 2, 1)
      c1        == Drop(course, AliasKeys)
  IN  Put(c1, "period", [start |-> OrEmpty(start_val), end |-> OrEmpty(end_val)])

\* validator.py 55-86: fold the alias keys into period; an existing start or
\* end wins, and period is set only when either is non-empty
fold_period(course) ==
  LET start_val == fold_alias(course, period_seed(course, "start"), 1, 1)
      end_val   == fold_alias(course, period_seed(course, "end"), 2, 1)
      c1        == Drop(course, AliasKeys)
  IN  IF Truthy(start_val) \/ Truthy(end_val)
      THEN Put(c1, "period", [start |-> OrEmpty(start_val), end |-> OrEmpty(end_val)])
      ELSE c1

\* validator.py 48-88
normalize_course_structure(doc) ==
  IF Has(doc, "courses")
  THEN [doc EXCEPT !["courses"] =
          [i \in 1..Len(@) |-> fold_period(hoist_participants(@[i]))]]
  ELSE doc

\* validator.py 103-106: status is removed from every optionalRQ entry
clean_op(op) == Drop(op, {"status"})

\* validator.py 103-104: for op in p.get("optionalRQ", []) or []
clean_participant(p) ==
  IF Has(p, "optionalRQ")
  THEN [p EXCEPT !["optionalRQ"] = [i \in 1..Len(@) |-> clean_op(@[i])]]
  ELSE p

\* validator.py 101-102
clean_course(course) ==
  IF Has(course, "participants")
  THEN [course EXCEPT !["participants"] = [i \in 1..Len(@) |-> clean_participant(@[i])]]
  ELSE course

\* validator.py 99-107
clean_optionalrq_status(doc) ==
  IF Has(doc, "courses")
  THEN [doc EXCEPT !["courses"] = [i \in 1..Len(@) |-> clean_course(@[i])]]
  ELSE doc

\* to_str, the helper of normalize_text_fields: the string representation of
\* a value that is present and not null
to_str(v) == IF IsNum(v) THEN Str(str_of_nat(v[2])) ELSE v

TextFields == <<"meal_allergy", "medical", "scheduleImpact">>

RECURSIVE text_fields(_, _)
\* validator.py 117-122
text_fields(p, i) ==
  IF i > Len(TextFields) THEN p
  ELSE LET k == TextFields[i]
       IN  text_fields(IF Has(p, k) THEN [p EXCEPT ![k] = to_str(@)] ELSE p, i + 1)

key_map == << <<"assistance", "assist">>,
              <<"support", "assist">>,
              <<"baggage", "carryOn">>,
              <<"luggage", "carryOn">>,
              <<"impact", "arrivalImpact">> >>

RECURSIVE map_keys(_, _)
\* validator.py 138-143
map_keys(al, i) ==
  IF i > Len(key_map) THEN al
  ELSE LET src == key_map[i][1]
           dst == key_map[i][2]
       IN  map_keys(IF Has(al, src) /\ ~Has(al, dst)
                    THEN Put(Drop(al, {src}), dst, al[src])
                    ELSE Drop(al, {src}),
                    i + 1)

allowed == {"meal", "assist", "carryOn", "arrivalImpact"}

\* validator.py 125-151
normalize_airline(al) ==
  LET al1 == map_keys(al, 1)
  IN  [k \in DOMAIN al1 \cap allowed |-> to_str(al1[k])]

normalize_text_participant(p) ==
  LET p1 == text_fields(p, 1)
  IN  IF Has(p1, "airline") THEN [p1 EXCEPT !["airline"] = normalize_airline(@)] ELSE p1

\* validator.py 114-115
normalize_text_course(course) ==
  IF Has(course, "participants")
  THEN [course EXCEPT !["participants"] =
          [i \in 1..Len(@) |-> normalize_text_participant(@[i])]]
  ELSE course

\* validator.py 112-153
normalize_text_fields(doc) ==
  IF Has(doc, "courses")
  THEN [doc EXCEPT !["courses"] = [i \in 1..Len(@) |-> normalize_text_course(@[i])]]
  ELSE doc

\* validator.py 174-177: the repair sequence of validate_schema
Repair(doc) ==
  coerce_numeric_fields(normalize_text_fields(
    clean_optionalrq_status(normalize_course_structure(doc))))

\* validator.py 174-177: the sequence raises, in its last pass
Repair_raises(doc) ==
  coerce_numeric_raises(normalize_text_fields(
    clean_optionalrq_status(normalize_course_structure(doc))))

-----------------------------------------------------------------------------
(* formatter.py: render_text *)

\* formatter.py 36-146: the fixed texts of render_text, character by character;
\* L.None is str(None) of formatter.py 54-55
L ==
  [ \* formatter.py 36: "ツアー情報:"
    tour             |-> <<"u30c4", "u30a2", "u30fc", "u60c5", "u5831", ":">>,
    \* formatter.py 39: "- コースNo: "
    course           |-> <<"-", " ", "u30b3", "u30fc", "u30b9", "N", "o", ":", " ">>,
    \* formatter.py 39: " / 期間: "
    period           |-> <<" ", "/", " ", "u671f", "u9593", ":", " ">>,
    \* formatter.py 40: "–"
    dash             |-> <<"u2013">>,
    \* formatter.py 49: "参加者（該当のみ）:"
    participants     |-> <<"u53c2", "u52a0", "u8005", "uff08", "u8a72", "u5f53", "u306e", "u307f", "uff09", ":">>,
    \* formatter.py 54: " No."
    no               |-> <<" ", "N", "o", ".">>,
    \* " "
    sp               |-> <<" ">>,
    \* " / "
    slash            |-> <<" ", "/", " ">>,
    \* formatter.py 55: "（問番:"
    inq              |-> <<"uff08", "u554f", "u756a", ":">>,
    \* formatter.py 55: "）"
    close            |-> <<"uff09">>,
    \* formatter.py 66-67: "- 参加形態: L/O（合流:"
    join             |-> <<"-", " ", "u53c2", "u52a0", "u5f62", "u614b", ":", " ", "L", "/", "O", "uff08", "u5408", "u6d41", ":">>,
    \* "/"
    div              |-> <<"/">>,
    \* formatter.py 68: " 送迎:"
    transfer         |-> <<" ", "u9001", "u8fce", ":">>,
    \* formatter.py 69: " 個人便:"
    flight           |-> <<" ", "u500b", "u4eba", "u4fbf", ":">>,
    \* formatter.py 76: "- ルーミング要望: "
    rooming          |-> <<"-", " ", "u30eb", "u30fc", "u30df", "u30f3", "u30b0", "u8981", "u671b", ":", " ">>,
    \* formatter.py 84: "- オプショナル: "
    optional         |-> <<"-", " ", "u30aa", "u30d7", "u30b7", "u30e7", "u30ca", "u30eb", ":", " ">>,
    \* formatter.py 84: " / RQ / "
    rq               |-> <<" ", "/", " ", "R", "Q", " ", "/", " ">>,
    \* formatter.py 81: "不明"
    unknown          |-> <<"u4e0d", "u660e">>,
    \* formatter.py 84: "名"
    pax              |-> <<"u540d">>,
    \* formatter.py 89: "- 特別依頼: "
    celebration      |-> <<"-", " ", "u7279", "u5225", "u4f9d", "u983c", ":", " ">>,
    \* formatter.py 93: "- 食事・アレルギー: "
    meal             |-> <<"-", " ", "u98df", "u4e8b", "u30fb", "u30a2", "u30ec", "u30eb", "u30ae", "u30fc", ":", " ">>,
    \* formatter.py 97: "- 医療・介助: "
    medical          |-> <<"-", " ", "u533b", "u7642", "u30fb", "u4ecb", "u52a9", ":", " ">>,
    \* formatter.py 108: "- 航空会社関連:"
    airline          |-> <<"-", " ", "u822a", "u7a7a", "u4f1a", "u793e", "u95a2", "u9023", ":">>,
    \* formatter.py 111: "  - "
    al_item          |-> <<" ", " ", "-", " ">>,
    \* formatter.py 111: ": "
    colon            |-> <<":", " ">>,
    \* formatter.py 102: "機内食"
    al_meal          |-> <<"u6a5f", "u5185", "u98df">>,
    \* formatter.py 103: "搭乗支援"
    al_assist        |-> <<"u642d", "u4e57", "u652f", "u63f4">>,
    \* formatter.py 104: "機内持込"
    al_carryOn       |-> <<"u6a5f", "u5185", "u6301", "u8fbc">>,
    \* formatter.py 105: "到着影響"
    al_arrivalImpact |-> <<"u5230", "u7740", "u5f71", "u97ff">>,
    \* formatter.py 115: "- 日程・集合影響: "
    schedule         |-> <<"-", " ", "u65e5", "u7a0b", "u30fb", "u96c6", "u5408", "u5f71", "u97ff", ":", " ">>,
    \* formatter.py 119: "- バス座席/グループ: "
    bus              |-> <<"-", " ", "u30d0", "u30b9", "u5ea7", "u5e2d", "/", "u30b0", "u30eb", "u30fc", "u30d7", ":", " ">>,
    \* formatter.py 136: "- 装備・レンタルサイズ: "
    gear             |-> <<"-", " ", "u88c5", "u5099", "u30fb", "u30ec", "u30f3", "u30bf", "u30eb", "u30b5", "u30a4", "u30ba", ":", " ">>,
    \* formatter.py 125: "服のサイズ"
    top              |-> <<"u670d", "u306e", "u30b5", "u30a4", "u30ba">>,
    \* formatter.py 127: "ズボン"
    bottom           |-> <<"u30ba", "u30dc", "u30f3">>,
    \* formatter.py 129: "靴"
    shoes            |-> <<"u9774">>,
    \* formatter.py 131: "身長"
    height           |-> <<"u8eab", "u9577">>,
    \* formatter.py 131: "cm"
    cm               |-> <<"c", "m">>,
    \* formatter.py 133: "体重"
    weight           |-> <<"u4f53", "u91cd">>,
    \* formatter.py 133: "kg"
    kg               |-> <<"k", "g">>,
    \* formatter.py 146: "- 別問番同行GRP: "
    other            |-> <<"-", " ", "u5225", "u554f", "u756a", "u540c", "u884c", "G", "R", "P", ":", " ">>,
    \* formatter.py 143: " 同室="
    room             |-> <<" ", "u540c", "u5ba4", "=">>,
    \* str(None): "None"
    None             |-> <<"N", "o", "n", "e">> ]

\* str(v) as an f-string formats it
Fmt(v) ==
  CASE IsStr(v) -> v[2]
    [] IsNum(v) -> str_of_nat(v[2])
    [] OTHER    -> L.None

\* formatter.py 8-10
_safe(v) == IF IsNull(v) THEN <<>> ELSE Fmt(v)

\* {d.get(k, '')}
FmtGet(d, k) == IF Has(d, k) THEN Fmt(d[k]) ELSE <<>>

\* d.get(k) or {}
SubDict(d, k) == IF Has(d, k) THEN d[k] ELSE EmptyDict

RECURSIVE JoinSeq(_, _)
\* sep.join(parts)
JoinSeq(sep, parts) ==
  IF parts = <<>> THEN <<>>
  ELSE IF Len(parts) = 1 THEN parts[1]
  ELSE parts[1] \o sep \o JoinSeq(sep, Tail(parts))

Whitespace == {" ", "NL"}

RECURSIVE lstrip(_)
lstrip(t) == IF t # <<>> /\ Head(t) \in Whitespace THEN lstrip(Tail(t)) ELSE t

RECURSIVE rstrip(_)
rstrip(t) ==
  IF t # <<>> /\ t[Len(t)] \in Whitespace THEN rstrip(SubSeq(t, 1, Len(t) - 1)) ELSE t

\* str.strip()
strip(t) == rstrip(lstrip(t))

\* formatter.py 53-56: the identity header line
header_line(c, p) ==
  FmtGet(c, "courseNo") \o L.no \o FmtGet(p, "no") \o L.sp \o FmtGet(p, "nameJP")
    \o L.slash \o FmtGet(p, "nameEN") \o L.inq \o FmtGet(p, "inquiryNo") \o L.close

\* formatter.py 59-72: the line is written whenever joinType is a non-empty dict
join_lines(p) ==
  LET jt       == SubDict(p, "joinType")
      meet     == SubDict(jt, "meet")
      flight   == SubDict(jt, "flight")
      transfer == OrEmpty(Get(jt, "transfer"))
  IN  IF DOMAIN jt # {}
      THEN << L.join \o _safe(Get(meet, "place")) \o L.div \o _safe(Get(meet, "datetime"))
                \o L.transfer \o _safe(transfer)
                \o L.flight \o _safe(Get(flight, "arrive")) \o L.div
                \o _safe(Get(flight, "depart")) \o L.close >>
      ELSE <<>>

\* formatter.py 75-76 and 88-89: a non-empty list of texts, joined by " / "
list_lines(p, k, label) ==
  IF ListOf(p, k) # <<>>
  THEN << label \o JoinSeq(L.slash, [i \in 1..Len(p[k]) |-> Fmt(p[k][i])]) >>
  ELSE <<>>

\* formatter.py 79-85
optional_line(op) ==
  LET date == IF Truthy(Get(op, "date")) THEN Fmt(op["date"]) ELSE L.unknown
      pax  == Fmt(OrEmpty(Get(op, "pax")))
  IN  L.optional \o FmtGet(op, "name") \o L.rq \o date \o L.slash \o pax \o L.pax

\* formatter.py 92-97, 114-119: one line for a non-empty text field
text_line(p, k, label) ==
  IF Truthy(Get(p, k)) THEN << label \o Fmt(p[k]) >> ELSE <<>>

al_fields == << <<"meal", L.al_meal>>,
                <<"assist", L.al_assist>>,
                <<"carryOn", L.al_carryOn>>,
                <<"arrivalImpact", L.al_arrivalImpact>> >>

\* formatter.py 100-111
airline_lines(p) ==
  LET al == SubDict(p, "airline")
      item(f) == IF Truthy(Get(al, f[1]))
                 THEN << L.al_item \o f[2] \o L.colon \o Fmt(al[f[1]]) >>
                 ELSE <<>>
  IN  IF \E i \in 1..Len(al_fields) : Truthy(Get(al, al_fields[i][1]))
      THEN <<L.airline>> \o Flatten([i \in 1..Len(al_fields) |-> item(al_fields[i])])
      ELSE <<>>

\* formatter.py 122-136
gear_lines(p) ==
  LET gs == SubDict(p, "gearSizes")
      seg(k, pre, post) == IF Truthy(Get(gs, k)) THEN << pre \o Fmt(gs[k]) \o post >> ELSE <<>>
      segs == seg("top", L.top, <<>>) \o seg("bottom", L.bottom, <<>>)
                \o seg("shoes", L.shoes, <<>>) \o seg("height_cm", L.height, L.cm)
                \o seg("weight_kg", L.weight, L.kg)
  IN  IF segs # <<>> THEN << L.gear \o JoinSeq(L.sp, segs) >> ELSE <<>>

\* formatter.py 139-148
other_line(og) ==
  LET room   == IF Truthy(Get(og, "roomType")) THEN L.room \o Fmt(og["roomType"]) ELSE <<>>
      status == Fmt(OrEmpty(Get(og, "status")))
  IN  L.other \o FmtGet(og, "name") \o L.div \o FmtGet(og, "inquiryNo")
        \o room \o L.sp \o status

\* formatter.py 51-151: the lines render_text appends for participant p of course c
participant_lines(c, p) ==
  << header_line(c, p) >>
    \o join_lines(p)
    \o list_lines(p, "roomingRQ", L.rooming)
    \o [i \in 1..Len(ListOf(p, "optionalRQ")) |-> optional_line(p["optionalRQ"][i])]
    \o list_lines(p, "celebration", L.celebration)
    \o text_line(p, "meal_allergy", L.meal)
    \o text_line(p, "medical", L.medical)
    \o airline_lines(p)
    \o text_line(p, "scheduleImpact", L.schedule)
    \o text_line(p, "busSeating", L.bus)
    \o gear_lines(p)
    \o [i \in 1..Len(ListOf(p, "otherGroup")) |-> other_line(p["otherGroup"][i])]
    \o << <<>> >>

\* formatter.py 36-49: the lines render_text appends for course c before its
\* participants
course_head(c) ==
  LET period == SubDict(c, "period")
  IN  << L.tour,
         L.course \o FmtGet(c, "courseNo") \o L.period
           \o _safe(Get(period, "start")) \o L.dash \o _safe(Get(period, "end")),
         <<>> >>
        \o (IF ListOf(c, "participants") # <<>> THEN <<L.participants>> ELSE <<>>)

\* formatter.py 32-154: the lines render_text appends for course c
course_lines(c) ==
  course_head(c)
    \o Flatten([i \in 1..Len(ListOf(c, "participants")) |->
                 participant_lines(c, c["participants"][i])])
    \o << <<>> >>

\* formatter.py 156
join_and_strip(out_lines) == strip(JoinSeq(<<"NL">>, out_lines))

\* formatter.py 18-156
render_text(doc) ==
  LET courses == ListOf(doc, "courses")
  IN  IF courses = <<>> THEN <<>>
      ELSE join_and_strip(Flatten([i \in 1..Len(courses) |-> course_lines(courses[i])]))

-----------------------------------------------------------------------------
(* safety.py *)

\* NG_PATTERNS without its first entry
NG_PATTERNS_without_seat ==
  << [lit |-> <<"u4e26", "u3073", "u5e2d">>, wb |-> FALSE],
     [lit |-> <<"u4fdd", "u967a">>, wb |-> FALSE],
     [lit |-> <<"u8fd4", "u91d1">>, wb |-> FALSE],
     [lit |-> <<"u91d1", "u92ad">>, wb |-> FALSE],
     [lit |-> <<"u65c5", "u5238">>, wb |-> FALSE],
     [lit |-> <<"J", "R">>, wb |-> TRUE],
     [lit |-> <<"u793e", "u5185", "u9032", "u884c">>, wb |-> FALSE] >>

\* safety.py 10-19: the patterns; wb marks a pattern between two \b
\* (座席, 並び席, 保険, 返金, 金銭, 旅券, \bJR\b, 社内進行)
NG_PATTERNS ==
  << [lit |-> <<"u5ea7", "u5e2d">>, wb |-> FALSE],
     [lit |-> <<"u4e26", "u3073", "u5e2d">>, wb |-> FALSE],
     [lit |-> <<"u4fdd", "u967a">>, wb |-> FALSE],
     [lit |-> <<"u8fd4", "u91d1">>, wb |-> FALSE],
     [lit |-> <<"u91d1", "u92ad">>, wb |-> FALSE],
     [lit |-> <<"u65c5", "u5238">>, wb |-> FALSE],
     [lit |-> <<"J", "R">>, wb |-> TRUE],
     [lit |-> <<"u793e", "u5185", "u9032", "u884c">>, wb |-> FALSE] >>

\* the characters of the model that Python's \w matches (letters, digits,
\* kana and kanji); every other character (space, newline, punctuation) is not
WordChars ==
  { "0", "1", "2", "3", "4", "5", "6", "7", "8", "9",
    "A", "B", "G", "J", "L", "N", "O", "P", "Q", "R",
    "c", "d", "e", "g", "k", "m", "n", "o", "x", "y",
    "uff12", "u00b2",
    "u306e", "u3073", "u307f", "u30a2", "u30a4", "u30aa", "u30ae", "u30b0", "u30b3", "u30b5",
    "u30b7", "u30b9", "u30ba", "u30bf", "u30c4", "u30ca", "u30d0", "u30d7", "u30dc", "u30df",
    "u30e7", "u30eb", "u30ec", "u30f3", "u30fc", "u4e0d", "u4e26", "u4e57", "u4e8b", "u4eba",
    "u4ecb", "u4f1a", "u4f53", "u4f9d", "u4fbf", "u4fdd", "u500b", "u5099", "u5185", "u5225",
    "u5230", "u5238", "u52a0", "u52a9", "u533b", "u53c2", "u5408", "u540c", "u540d", "u554f",
    "u5831", "u5ba4", "u5e2d", "u5ea7", "u5f53", "u5f62", "u5f71", "u60c5", "u614b", "u6301",
    "u63f4", "u642d", "u652f", "u65c5", "u65e5", "u660e", "u670d", "u671b", "u671f", "u6a5f",
    "u6d41", "u7279", "u756a", "u7642", "u7740", "u793e", "u7a0b", "u7a7a", "u8005", "u822a",
    "u884c", "u88c5", "u8981", "u8a72", "u8eab", "u8fbc", "u8fce", "u8fd4", "u9001", "u9023",
    "u9032", "u91cd", "u91d1", "u92ad", "u9577", "u9593", "u95a2", "u967a", "u96c6", "u9774",
    "u97ff", "u983c", "u98df" }

IsWordAt(txt, i) == i \in 1..Len(txt) /\ txt[i] \in WordChars

\* \b between txt[i-1] and txt[i]
Boundary(txt, i) == IsWordAt(txt, i - 1) # IsWordAt(txt, i)

\* re.search(pat, text) finds the pattern at position i
MatchAt(pat, txt, i) ==
  LET n == Len(pat.lit)
  IN  /\ i + n - 1 <= Len(txt)
      /\ SubSeq(txt, i, i + n - 1) = pat.lit
      /\ pat.wb => Boundary(txt, i) /\ Boundary(txt, i + n)

re_search(pat, txt) == \E i \in 1..Len(txt) : MatchAt(pat, txt, i)

\* contains_ng_terms that looks for the first pattern only
contains_ng_terms_first_only(txt) == re_search(NG_PATTERNS[1], txt)

\* safety.py 22-26
contains_ng_terms(txt) ==
  \E k \in 1..Len(NG_PATTERNS) : re_search(NG_PATTERNS[k], txt)

\* safety.py 29-38: the matched texts, one per pattern that matches
find_all_ng_terms(txt) ==
  LET hit(pat) == IF re_search(pat, txt) THEN <<pat.lit>> ELSE <<>>
  IN  Flatten([k \in 1..Len(NG_PATTERNS) |-> hit(NG_PATTERNS[k])])

-----------------------------------------------------------------------------
(* Documents the extraction may return *)

d1 == Str(<<"d", "1">>)
d2 == Str(<<"d", "2">>)
d3 == Str(<<"d", "3">>)
d4 == Str(<<"d", "4">>)
sx == Str(<<"x">>)
sy == Str(<<"y">>)
s0 == Str(<<>>)

PeriodOpts ==
  << EmptyDict,
     [period |-> EmptyDict],
     [period |-> [start |-> d1, end |-> d2]],
     [period |-> [start |-> d1]],
     [period |-> [start |-> s0, end |-> d2]],
     [period |-> [start |-> d1, end |-> d2, note |-> sx]] >>

AliasOpts ==
  << EmptyDict,
     [periodFrom |-> d3, periodTo |-> d4],
     [periodStart |-> d3],
     [startDate |-> s0, endDate |-> d4],
     [periodTo |-> s0, periodStart |-> d4, startDate |-> d3, endDate |-> d3] >>

NoOpts ==
  << EmptyDict,
     [no |-> Str(<<"0", "1">>)],
     [no |-> Str(<<"1", "2">>)],
     [no |-> Str(<<"x", "1">>)],
     [no |-> Num(1)],
     [no |-> s0],
     [no |-> Str(<<"uff12">>)],
     [no |-> Str(<<"u00b2">>)] >>

OptionalOpts ==
  << EmptyDict,
     [optionalRQ |-> <<>>],
     [optionalRQ |-> <<[name |-> sx, status |-> Str(<<"R", "Q">>), date |-> d1,
                        pax |-> Str(<<"2">>)]>>],
     [optionalRQ |-> <<[name |-> sx, pax |-> Num(2)]>>],
     [optionalRQ |-> <<[name |-> sx, status |-> sy, pax |-> sx],
                       [name |-> sy, date |-> d2]>>],
     [optionalRQ |-> <<[name |-> sx, pax |-> Str(<<"3">>)],
                       [name |-> sy, pax |-> Str(<<"1", "u00b2">>)],
                       [name |-> sx, pax |-> Str(<<"4">>)]>>] >>

AirlineOpts ==
  << EmptyDict,
     [airline |-> EmptyDict],
     [airline |-> [assistance |-> sx, support |-> sy]],
     [airline |-> [assist |-> sx, assistance |-> sy, seat |-> sx, meal |-> Num(5)]],
     [airline |-> [luggage |-> sx, impact |-> sy, meal |-> Null]] >>

TextOpts ==
  << EmptyDict,
     [meal_allergy |-> Num(7)],
     [medical |-> sx, scheduleImpact |-> Null],
     [meal_allergy |-> s0, medical |-> Num(12), scheduleImpact |-> sy] >>

Identity == [nameJP |-> sx, nameEN |-> sy, inquiryNo |-> Str(<<"9">>)]

Participant(n, o, a, t) ==
  Identity @@ NoOpts[n] @@ OptionalOpts[o] @@ AirlineOpts[a] @@ TextOpts[t]

\* where the participants of a course are: nowhere, under the course, under
\* its period, under both
Placed(course, ps, where) ==
  CASE where = 1 -> course
    [] where = 2 -> course @@ [participants |-> ps]
    [] where = 3 -> [course EXCEPT !["period"] = @ @@ [participants |-> ps]]
    [] where = 4 -> [course EXCEPT !["period"] = @ @@ [participants |-> <<>>]]
                      @@ [participants |-> ps]

Course(id, pi, ai) == [courseNo |-> Str(id)] @@ PeriodOpts[pi] @@ AliasOpts[ai]

\* the documents the repair sequence is checked on: every shape of course
\* around one unrepaired participant, and every shape of participant
RepairInputs(doc) ==
  \/ doc = EmptyDict
  \/ \E pi \in 1..Len(PeriodOpts), ai \in 1..Len(AliasOpts), w \in 1..4 :
       /\ w \in {3, 4} => pi > 1
       /\ doc = [courses |-> <<Placed(Course(<<"A", "1">>, pi, ai),
                                      <<Participant(2, 3, 3, 2)>>, w)>>]
  \/ \E n \in 1..Len(NoOpts), o \in 1..Len(OptionalOpts),
        a \in 1..Len(AirlineOpts), t \in 1..Len(TextOpts) :
       doc = [courses |-> <<Course(<<"A", "1">>, 3, 1)
                              @@ [participants |-> <<Participant(n, o, a, t)>>]>>]

-----------------------------------------------------------------------------
(* The repair sequence, one pass per step, run twice (validator.py 174-177) *)

RepStructure ==
  /\ r_pc \in {<<1, "structure">>, <<2, "structure">>}
  /\ r_doc' = normalize_course_structure(r_doc)
  /\ r_pc' = <<r_pc[1], "status">>
  /\ UNCHANGED <<r_orig, r_once, not_rep>>

RepStatus ==
  /\ r_pc \in {<<1, "status">>, <<2, "status">>}
  /\ r_doc' = clean_optionalrq_status(r_doc)
  /\ r_pc' = <<r_pc[1], "text">>
  /\ UNCHANGED <<r_orig, r_once, not_rep>>

RepText ==
  /\ r_pc \in {<<1, "text">>, <<2, "text">>}
  /\ r_doc' = normalize_text_fields(r_doc)
  /\ r_pc' = <<r_pc[1], "numeric">>
  /\ UNCHANGED <<r_orig, r_once, not_rep>>

RepNumeric ==
  /\ r_pc \in {<<1, "numeric">>, <<2, "numeric">>}
  /\ ~coerce_numeric_raises(r_doc)
  /\ r_doc' = coerce_numeric_fields(r_doc)
  /\ r_pc' = IF r_pc[1] = 1 THEN <<2, "structure">> ELSE <<2, "done">>
  /\ r_once' = IF r_pc[1] = 1 THEN r_doc' ELSE r_once
  /\ UNCHANGED <<r_orig, not_rep>>

\* validator.py 27, 33: int() raises in coerce_numeric_fields; the values before
\* the one it raised on are coerced, the others are not
RepNumericRaise ==
  /\ r_pc \in {<<1, "numeric">>, <<2, "numeric">>}
  /\ coerce_numeric_raises(r_doc)
  /\ r_doc' = coerce_numeric_fields(r_doc)
  /\ r_pc' = <<r_pc[1], "raised">>
  /\ UNCHANGED <<r_orig, r_once, not_rep>>

RepNext == RepStructure \/ RepStatus \/ RepText \/ RepNumeric \/ RepNumericRaise

-----------------------------------------------------------------------------
(* render_text, one loop iteration per step, on one course (formatter.py 32-156) *)

JoinTypeOpts ==
  << EmptyDict,
     [joinType |-> EmptyDict],
     [joinType |-> [transfer |-> s0]],
     [joinType |-> [meet |-> EmptyDict, flight |-> EmptyDict]],
     [joinType |-> [meet |-> [place |-> s0, datetime |-> s0],
                    flight |-> [arrive |-> s0, depart |-> s0], transfer |-> s0]],
     [joinType |-> [meet |-> [place |-> sx, datetime |-> d1], transfer |-> sy]] >>

AirlineRenderOpts ==
  << EmptyDict,
     [airline |-> EmptyDict],
     [airline |-> [meal |-> s0, assist |-> s0, carryOn |-> s0, arrivalImpact |-> s0]],
     [airline |-> [meal |-> sx, carryOn |-> sy]] >>

GearOpts ==
  << EmptyDict,
     [gearSizes |-> EmptyDict],
     [gearSizes |-> [top |-> s0, bottom |-> s0, shoes |-> s0, height_cm |-> s0,
                     weight_kg |-> s0]],
     [gearSizes |-> [top |-> sx, height_cm |-> Num(170)]] >>

ListOpts ==
  << EmptyDict,
     [roomingRQ |-> <<>>, optionalRQ |-> <<>>, celebration |-> <<>>, otherGroup |-> <<>>],
     [roomingRQ |-> <<sx, sy>>, optionalRQ |-> <<[name |-> sx, pax |-> Num(2)]>>],
     [celebration |-> <<sy>>,
      otherGroup |-> <<[name |-> sx, inquiryNo |-> Str(<<"8">>), roomType |-> sy],
                       [name |-> sy, inquiryNo |-> Str(<<"7">>), status |-> sx]>>] >>

TextRenderOpts ==
  << EmptyDict,
     [meal_allergy |-> s0, medical |-> s0, scheduleImpact |-> s0, busSeating |-> s0],
     [meal_allergy |-> sx, scheduleImpact |-> sy],
     [medical |-> sy, busSeating |-> sx] >>

RenderParticipantOf(j, a, g, l, t) ==
  Identity @@ [no |-> Num(1)] @@ JoinTypeOpts[j] @@ AirlineRenderOpts[a] @@ GearOpts[g]
    @@ ListOpts[l] @@ TextRenderOpts[t]

PlainParticipant == Identity @@ [no |-> Num(2)]

rn_course == rn_doc["courses"][1]

\* formatter.py 36-49
RnCourse ==
  /\ rn_pc = "course"
  /\ rn_lines' = rn_lines \o course_head(rn_course)
  /\ rn_pc' = "participant"
  /\ UNCHANGED <<rn_doc, rn_k, rn_last, rn_text, not_rn>>

\* formatter.py 51-151: one iteration of the participant loop
RnParticipant ==
  /\ rn_pc = "participant"
  /\ rn_k <= Len(rn_course["participants"])
  /\ rn_last' = participant_lines(rn_course, rn_course["participants"][rn_k])
  /\ rn_lines' = rn_lines \o rn_last'
  /\ rn_k' = rn_k + 1
  /\ UNCHANGED <<rn_doc, rn_text, rn_pc, not_rn>>

\* formatter.py 153-154: the separator after the course
RnCourseEnd ==
  /\ rn_pc = "participant"
  /\ rn_k > Len(rn_course["participants"])
  /\ rn_lines' = Append(rn_lines, <<>>)
  /\ rn_pc' = "join"
  /\ UNCHANGED <<rn_doc, rn_k, rn_last, rn_text, not_rn>>

\* formatter.py 156
RnReturn ==
  /\ rn_pc = "join"
  /\ rn_text' = join_and_strip(rn_lines)
  /\ rn_pc' = "done"
  /\ UNCHANGED <<rn_doc, rn_k, rn_lines, rn_last, not_rn>>

RnNext == RnCourse \/ RnParticipant \/ RnCourseEnd \/ RnReturn

-----------------------------------------------------------------------------
(* pipeline.py: process_text and main *)

MaxBlocks == 2

\* pipeline.py 94: "Schema validation failed for course "
M_schema ==
  <<"S", "c", "h", "e", "m", "a", " ", "v", "a", "l", "i", "d", "a", "t", "i", "o", "n",
    " ", "f", "a", "i", "l", "e", "d", " ", "f", "o", "r", " ", "c", "o", "u", "r",
    "s", "e", " ">>
\* pipeline.py 103: "Semantic validation call failed for course "
M_semantic ==
  <<"S", "e", "m", "a", "n", "t", "i", "c", " ", "v", "a", "l", "i", "d", "a", "t", "i",
    "o", "n", " ", "c", "a", "l", "l", " ", "f", "a", "i", "l", "e", "d", " ", "f",
    "o", "r", " ", "c", "o", "u", "r", "s", "e", " ">>
\* pipeline.py 94, 103: ": "
M_sep ==
  <<":", " ">>
\* pipeline.py 134-135: "NGワード（座席・保険・金銭など）が出力に含まれています。 該当: "
M_ng ==
  <<"N", "G", "u30ef", "u30fc", "u30c9", "uff08", "u5ea7", "u5e2d", "u30fb", "u4fdd",
    "u967a", "u30fb", "u91d1", "u92ad", "u306a", "u3069", "uff09", "u304c", "u51fa",
    "u529b", "u306b", "u542b", "u307e", "u308c", "u3066", "u3044", "u307e", "u3059",
    "u3002", " ", "u8a72", "u5f53", ":", " ">>
\* pipeline.py 83: "BLOCK-"
M_block ==
  <<"B", "L", "O", "C", "K", "-">>
\* llm_extractor.py 118: "LLM 抽出結果が空です"
E_extract ==
  <<"L", "L", "M", " ", "u62bd", "u51fa", "u7d50", "u679c", "u304c", "u7a7a", "u3067",
    "u3059">>
\* llm_validator.py 131: "LLM semantic validation returned empty content"
E_review ==
  <<"L", "L", "M", " ", "s", "e", "m", "a", "n", "t", "i", "c", " ", "v", "a", "l", "i",
    "d", "a", "t", "i", "o", "n", " ", "r", "e", "t", "u", "r", "n", "e", "d", " ",
    "e", "m", "p", "t", "y", " ", "c", "o", "n", "t", "e", "n", "t">>

\* the text of the ValidationError of jsonschema
E_validation == <<"e", "r", "r">>

\* the documents the extraction capability may return
PipeDocs ==
  << \* a repaired document of two courses, with JR inside a word
     [courses |-> <<[courseNo |-> Str(<<"B", "2">>), period |-> [start |-> d3, end |-> d4],
                     participants |-> <<Identity @@ [no |-> Num(2), roomingRQ |-> <<sx, sy>>]>>],
                    [courseNo |-> Str(<<"A", "1">>), period |-> [start |-> d1, end |-> d2],
                     participants |->
                       <<Identity @@ [no |-> Num(1), medical |-> Str(<<"J", "R", "x">>)]>>]>>],
     \* an unrepaired one: alias keys, status, digit strings, airline synonyms
     [courses |-> <<Course(<<"A", "1">>, 1, 2)
                      @@ [participants |-> <<Participant(3, 3, 3, 2)>>]>>],
     \* a forbidden term in a field: JR as a word
     [courses |-> <<[courseNo |-> Str(<<"B", "2">>),
                     participants |->
                       <<Identity @@ [no |-> Num(1), scheduleImpact |-> Str(<<"J", "R">>)]>>]>>],
     \* a bus seating note
     [courses |-> <<[courseNo |-> Str(<<"A", "1">>),
                     participants |-> <<Identity @@ [no |-> Num(1), busSeating |-> sx]>>]>>],
     \* no course at all
     [courses |-> <<>>],
     \* a number int() rejects, after one it takes
     [courses |-> <<[courseNo |-> Str(<<"A", "1">>),
                     participants |->
                       <<Identity @@ [no |-> Str(<<"0", "3">>)],
                         Identity @@ [no |-> Str(<<"u00b2">>)]>>]>>] >>

\* the results the semantic-review capability may return
ReviewResults ==
  << [ok |-> TRUE, errors |-> <<>>, warnings |-> <<>>],
     [ok |-> FALSE,
      errors |-> <<[code |-> <<"E", "R", "R">>, message |-> <<"x">>]>>,
      warnings |-> <<[code |-> <<"W">>, message |-> <<"y">>]>>] >>

\* the normalized input: an optional header line, then k courses of two lines
CourseLines(i) == << <<TokId(<<"C", Digits[i + 1]>>), TokDate("d1"), TokDate("d2")>>, <<TokW>> >>

RECURSIVE InputOf(_)
InputOf(k) == IF k = 0 THEN <<>> ELSE InputOf(k - 1) \o CourseLines(k)

\* pipeline.py 83: block.get("courseNo") or f"BLOCK-{idx+1}"
course_no_of(bs, i) ==
  IF bs[i].courseNo # <<>> THEN bs[i].courseNo ELSE M_block \o str_of_nat(i)

course_no == course_no_of(p_blocks, idx)

None == <<>>
Some(x) == <<x>>

Call(op, i, out, val) == [op |-> op, idx |-> i, out |-> out, val |-> val]

\* pipeline.py 76-82: segmentation, then the loop over the blocks
Segment ==
  /\ pc = "start"
  /\ p_blocks' = find_course_blocks(in_lines)
  /\ pc' = IF p_blocks' = <<>> THEN "render" ELSE "extract"
  /\ UNCHANGED <<schema_loaded, in_lines, idx, extracted, all_courses, all_reviews, text,
                 ret, error, stdout, calls, not_pl>>

\* pipeline.py 86: the extraction returns a document
Extract ==
  /\ pc = "extract"
  /\ \E d \in 1..Len(PipeDocs) :
       /\ extracted' = PipeDocs[d]
       /\ calls' = Append(calls, Call("extract", idx, "ok", PipeDocs[d]))
  /\ pc' = "validate"
  /\ UNCHANGED <<schema_loaded, in_lines, p_blocks, idx, all_courses, all_reviews, text,
                 ret, error, stdout, not_pl>>

\* pipeline.py 86: the extraction raises; nothing in process_text catches it
ExtractFail ==
  /\ pc = "extract"
  /\ calls' = Append(calls, Call("extract", idx, "raise", E_extract))
  /\ error' = Some([msg |-> E_extract, hits |-> {}])
  /\ pc' = "Fatal"
  /\ UNCHANGED <<schema_loaded, in_lines, p_blocks, idx, extracted, all_courses,
                 all_reviews, text, ret, stdout, not_pl>>

\* validate_schema at work on a copy of the document
validated_copy(loaded, doc) == doc

\* validator.py 165-179: the document as validate_schema leaves it, whether it
\* returns or raises: it mutates the document it is given; with no schema
\* loaded it returns at once
validated(loaded, doc) == IF loaded THEN Repair(doc) ELSE doc

\* pipeline.py 89-90: validate_schema returns
Validate ==
  /\ pc = "validate"
  /\ ~(schema_loaded /\ Repair_raises(extracted))
  /\ extracted' = validated(schema_loaded, extracted)
  /\ calls' = Append(calls, Call("validate", idx, "ok", <<>>))
  /\ pc' = "review"
  /\ UNCHANGED <<schema_loaded, in_lines, p_blocks, idx, all_courses, all_reviews, text,
                 ret, error, stdout, not_pl>>

\* ValidateFail with the exception caught and the loop going on
ValidateFailSwallowed ==
  /\ pc = "validate"
  /\ schema_loaded
  /\ extracted' = validated(schema_loaded, extracted)
  /\ calls' = Append(calls, Call("validate", idx, "raise", E_validation))
  /\ pc' = "review"
  /\ UNCHANGED <<schema_loaded, in_lines, p_blocks, idx, all_courses, all_reviews, text,
                 ret, error, stdout, not_pl>>

\* pipeline.py 91-95: validate_schema raises: the repaired document does not
\* conform, or int() raised in the repair
ValidateFail ==
  /\ pc = "validate"
  /\ schema_loaded
  /\ extracted' = validated(schema_loaded, extracted)
  /\ calls' = Append(calls, Call("validate", idx, "raise", E_validation))
  /\ error' = Some([msg |-> M_schema \o course_no \o M_sep \o E_validation, hits |-> {}])
  /\ pc' = "Fatal"
  /\ UNCHANGED <<schema_loaded, in_lines, p_blocks, idx, all_courses, all_reviews, text,
                 ret, stdout, not_pl>>

\* pipeline.py 115: review.get("ok", True)
review_ok(review) == IF Has(review, "ok") THEN review["ok"] ELSE TRUE

\* Review that ends the run when the result is not ok
ReviewStrict ==
  /\ pc = "review"
  /\ \E r \in 1..Len(ReviewResults) :
       /\ calls' = Append(calls, Call("review", idx, "ok", ReviewResults[r]))
       /\ all_reviews' = Append(all_reviews,
                                [courseNo |-> course_no, review |-> ReviewResults[r]])
       /\ IF review_ok(ReviewResults[r])
          THEN /\ all_courses' = all_courses \o ListOf(extracted, "courses")
               /\ idx' = idx + 1
               /\ pc' = IF idx < Len(p_blocks) THEN "extract" ELSE "render"
               /\ error' = error
          ELSE /\ error' = Some([msg |-> M_semantic \o course_no, hits |-> {}])
               /\ pc' = "Fatal"
               /\ UNCHANGED <<all_courses, idx>>
  /\ UNCHANGED <<schema_loaded, in_lines, p_blocks, extracted, text, ret, stdout, not_pl>>

\* Review that puts the courses of the document in front of the aggregate
ReviewPrepend ==
  /\ pc = "review"
  /\ \E r \in 1..Len(ReviewResults) :
       /\ calls' = Append(calls, Call("review", idx, "ok", ReviewResults[r]))
       /\ all_reviews' = Append(all_reviews,
                                [courseNo |-> course_no, review |-> ReviewResults[r]])
  /\ all_courses' = ListOf(extracted, "courses") \o all_courses
  /\ idx' = idx + 1
  /\ pc' = IF idx < Len(p_blocks) THEN "extract" ELSE "render"
  /\ UNCHANGED <<schema_loaded, in_lines, p_blocks, extracted, text, ret, error, stdout,
                 not_pl>>

\* pipeline.py 98-124: the review returns; its result is kept for the report
\* and the courses of the document join the aggregate
Review ==
  /\ pc = "review"
  /\ \E r \in 1..Len(ReviewResults) :
       /\ calls' = Append(calls, Call("review", idx, "ok", ReviewResults[r]))
       /\ all_reviews' = Append(all_reviews,
                                [courseNo |-> course_no, review |-> ReviewResults[r]])
  /\ all_courses' = all_courses \o ListOf(extracted, "courses")
  /\ idx' = idx + 1
  /\ pc' = IF idx < Len(p_blocks) THEN "extract" ELSE "render"
  /\ UNCHANGED <<schema_loaded, in_lines, p_blocks, extracted, text, ret, error, stdout,
                 not_pl>>

\* pipeline.py 100-104: the review call raises
ReviewFail ==
  /\ pc = "review"
  /\ calls' = Append(calls, Call("review", idx, "raise", E_review))
  /\ error' = Some([msg |-> M_semantic \o course_no \o M_sep \o E_review, hits |-> {}])
  /\ pc' = "Fatal"
  /\ UNCHANGED <<schema_loaded, in_lines, p_blocks, idx, extracted, all_courses,
                 all_reviews, text, ret, stdout, not_pl>>

\* pipeline.py 127-128
Render ==
  /\ pc = "render"
  /\ text' = render_text([courses |-> all_courses])
  /\ calls' = Append(calls, Call("render", 0, "ok", <<>>))
  /\ pc' = "filter"
  /\ UNCHANGED <<schema_loaded, in_lines, p_blocks, idx, extracted, all_courses,
                 all_reviews, ret, error, stdout, not_pl>>

\* pipeline.py 131-136: the text holds a forbidden term; set(hits) goes in the message
FilterFatal ==
  /\ pc = "filter"
  /\ contains_ng_terms(text)
  /\ calls' = Append(calls, Call("filter", 0, "raise", find_all_ng_terms(text)))
  /\ error' = Some([msg |-> M_ng, hits |-> Range(find_all_ng_terms(text))])
  /\ pc' = "Fatal"
  /\ UNCHANGED <<schema_loaded, in_lines, p_blocks, idx, extracted, all_courses,
                 all_reviews, text, ret, stdout, not_pl>>

\* pipeline.py 131-141: the text is clean; the report goes to stderr and the
\* text is returned
Return ==
  /\ pc = "filter"
  /\ ~contains_ng_terms(text)
  /\ calls' = Append(calls, Call("filter", 0, "ok", <<>>))
  /\ ret' = Some(text)
  /\ pc' = "Success"
  /\ UNCHANGED <<schema_loaded, in_lines, p_blocks, idx, extracted, all_courses,
                 all_reviews, text, error, stdout, not_pl>>

\* pipeline.py 158-159: main prints what process_text returned
MainPrint ==
  /\ pc = "Success"
  /\ stdout = None
  /\ stdout' = ret
  /\ UNCHANGED <<schema_loaded, in_lines, p_blocks, idx, extracted, all_courses,
                 all_reviews, text, ret, error, calls, pc, not_pl>>

Next ==
  \/ Segment
  \/ Extract
  \/ ExtractFail
  \/ Validate
  \/ ValidateFail
  \/ Review
  \/ ReviewFail
  \/ Render
  \/ FilterFatal
  \/ Return
  \/ MainPrint

-----------------------------------------------------------------------------
(* Specifications *)

SegNext == SegLine \/ SegReturn

(* Initial states: each specification runs one program from its initial   *)
(* state and leaves the variables of the others at rest                    *)

SegInit ==
  /\ lines \in SeqsUpTo(LineSet, MaxLines)
  /\ pos = 1
  /\ cur = NewBlock(<<>>)
  /\ blocks = <<>>
  /\ seg_pc = "loop"
  \* the other programs are not run
  /\ r_orig = EmptyDict
  /\ r_doc = EmptyDict
  /\ r_once = EmptyDict
  /\ r_pc = "idle"
  /\ rn_doc = EmptyDict
  /\ rn_k = 1
  /\ rn_lines = <<>>
  /\ rn_last = <<>>
  /\ rn_text = <<>>
  /\ rn_pc = "idle"
  /\ schema_loaded = FALSE
  /\ in_lines = <<>>
  /\ p_blocks = <<>>
  /\ idx = 1
  /\ extracted = EmptyDict
  /\ all_courses = <<>>
  /\ all_reviews = <<>>
  /\ text = <<>>
  /\ ret = None
  /\ error = None
  /\ stdout = None
  /\ calls = <<>>
  /\ pc = "idle"

RepInit ==
  /\ RepairInputs(r_orig)
  /\ r_doc = r_orig
  /\ r_once = EmptyDict
  /\ r_pc = <<1, "structure">>
  \* the other programs are not run
  /\ lines = <<>>
  /\ pos = 1
  /\ cur = NewBlock(<<>>)
  /\ blocks = <<>>
  /\ seg_pc = "idle"
  /\ rn_doc = EmptyDict
  /\ rn_k = 1
  /\ rn_lines = <<>>
  /\ rn_last = <<>>
  /\ rn_text = <<>>
  /\ rn_pc = "idle"
  /\ schema_loaded = FALSE
  /\ in_lines = <<>>
  /\ p_blocks = <<>>
  /\ idx = 1
  /\ extracted = EmptyDict
  /\ all_courses = <<>>
  /\ all_reviews = <<>>
  /\ text = <<>>
  /\ ret = None
  /\ error = None
  /\ stdout = None
  /\ calls = <<>>
  /\ pc = "idle"

RnInit ==
  /\ \E j \in 1..Len(JoinTypeOpts), a \in 1..Len(AirlineRenderOpts), g \in 1..Len(GearOpts),
        l \in 1..Len(ListOpts), t \in 1..Len(TextRenderOpts), more \in BOOLEAN :
       rn_doc = [courses |->
                  <<[courseNo |-> Str(<<"A", "1">>), period |-> [start |-> d1, end |-> d2],
                     participants |-> <<RenderParticipantOf(j, a, g, l, t)>>
                                        \o (IF more THEN <<PlainParticipant>> ELSE <<>>)]>>]
  /\ rn_k = 1
  /\ rn_lines = <<>>
  /\ rn_last = <<>>
  /\ rn_text = <<>>
  /\ rn_pc = "course"
  \* the other programs are not run
  /\ lines = <<>>
  /\ pos = 1
  /\ cur = NewBlock(<<>>)
  /\ blocks = <<>>
  /\ seg_pc = "idle"
  /\ r_orig = EmptyDict
  /\ r_doc = EmptyDict
  /\ r_once = EmptyDict
  /\ r_pc = "idle"
  /\ schema_loaded = FALSE
  /\ in_lines = <<>>
  /\ p_blocks = <<>>
  /\ idx = 1
  /\ extracted = EmptyDict
  /\ all_courses = <<>>
  /\ all_reviews = <<>>
  /\ text = <<>>
  /\ ret = None
  /\ error = None
  /\ stdout = None
  /\ calls = <<>>
  /\ pc = "idle"

PlInit ==
  /\ schema_loaded \in BOOLEAN
  /\ \E k \in 0..MaxBlocks, hdr \in BOOLEAN :
       in_lines = (IF hdr THEN << <<TokW>> >> ELSE <<>>) \o InputOf(k)
  /\ p_blocks = <<>>
  /\ idx = 1
  /\ extracted = EmptyDict
  /\ all_courses = <<>>
  /\ all_reviews = <<>>
  /\ text = <<>>
  /\ ret = None
  /\ error = None
  /\ stdout = None
  /\ calls = <<>>
  /\ pc = "start"
  \* the other programs are not run
  /\ lines = <<>>
  /\ pos = 1
  /\ cur = NewBlock(<<>>)
  /\ blocks = <<>>
  /\ seg_pc = "idle"
  /\ r_orig = EmptyDict
  /\ r_doc = EmptyDict
  /\ r_once = EmptyDict
  /\ r_pc = "idle"
  /\ rn_doc = EmptyDict
  /\ rn_k = 1
  /\ rn_lines = <<>>
  /\ rn_last = <<>>
  /\ rn_text = <<>>
  /\ rn_pc = "idle"

Spec == PlInit /\ [][Next]_vars

SpecSeg == SegInit /\ [][SegNext]_vars

SpecRepair == RepInit /\ [][RepNext]_vars

SpecRender == RnInit /\ [][RnNext]_vars

\* C3: the repair sequence run twice leaves the document the first run left
C3_RepairIdempotent ==
  r_pc = <<2, "done">> => r_doc = r_once

\* two runs are over on a document the first run changed in every pass:
\* aliases folded, status dropped, airline keys mapped, digit strings coerced
C3_Witness ==
  /\ r_pc = <<2, "done">>
  /\ r_doc = r_once
  /\ r_orig # EmptyDict
  /\ LET c0 == r_orig["courses"][1]
         c1 == r_doc["courses"][1]
         p0 == c0["participants"][1]
         p1 == c1["participants"][1]
     IN  /\ Has(c0, "periodFrom") /\ ~Has(c1, "periodFrom")
         /\ Has(c0, "participants")
         /\ Has(p0["optionalRQ"][1], "status") /\ ~Has(p1["optionalRQ"][1], "status")
         /\ p0["no"] = Str(<<"0", "1">>) /\ p1["no"] = Num(1)
         /\ Has(p0["airline"], "assistance") /\ Has(p1["airline"], "assist")

-----------------------------------------------------------------------------
(* Claims about find_course_blocks (checked under SpecSeg) *)

RECURSIVE CourseIdx(_, _)
\* indices i >= from of the lines ls that match the course-identifier pattern
CourseIdx(ls, from) ==
  IF from > Len(ls) THEN <<>>
  ELSE IF m_course(ls[from]) # <<>> THEN <<from>> \o CourseIdx(ls, from + 1)
       ELSE CourseIdx(ls, from + 1)

RECURSIVE PeriodIdx(_, _)
\* indices i >= from of the lines ls that match the date-range pattern
PeriodIdx(ls, from) ==
  IF from > Len(ls) THEN <<>>
  ELSE IF m_period(ls[from]) # <<>> THEN <<from>> \o PeriodIdx(ls, from + 1)
       ELSE PeriodIdx(ls, from + 1)

\* C4: find_course_blocks returns one block per identifier-matching line, in
\* the order of those lines, the i-th block carrying the identifier of the
\* i-th matching line, and no returned block has an empty courseNo.
C4_SegmentationOrder ==
  seg_pc = "done" =>
    LET M == CourseIdx(lines, 1)
    IN  /\ Len(blocks) = Len(M)
        /\ \A i \in 1..Len(blocks) :
             /\ blocks[i].courseNo = m_course(lines[M[i]])
             /\ blocks[i].courseNo # <<>>

\* a finished scan with header lines and two blocks of different courses
C4_Witness ==
  /\ seg_pc = "done"
  /\ Len(lines) >= 3
  /\ m_course(lines[1]) = <<>>
  /\ Len(blocks) = 2
  /\ blocks[1].courseNo # blocks[2].courseNo

\* C5 (as claimed): when the span of a block holds two or more lines that
\* match the date-range pattern, the block's period is that of the first
\* matching line of the block.
C5_PeriodFirstWins ==
  seg_pc = "done" =>
    \A i \in 1..Len(blocks) :
      LET P == PeriodIdx(blocks[i].lines, 1)
      IN  Len(P) >= 2 => blocks[i].period = m_period(blocks[i].lines[P[1]])

\* C9: the lines of the returned blocks, concatenated in block order, are the
\* suffix of the input that starts at the first identifier-matching line;
\* block i holds exactly the lines from the i-th identifier line up to the
\* line before the next one, so its first line is its identifier line, the
\* header lines are in no block and every other line is in exactly one.
C9_LinesPartition ==
  seg_pc = "done" =>
    LET M == CourseIdx(lines, 1)
        n == Len(lines)
        last(i) == IF i < Len(M) THEN M[i + 1] - 1 ELSE n
    IN  /\ Flatten([i \in 1..Len(blocks) |-> blocks[i].lines])
             = IF M = <<>> THEN <<>> ELSE SubSeq(lines, M[1], n)
        /\ Len(blocks) = Len(M)
        /\ \A i \in 1..Len(blocks) :
             /\ blocks[i].lines = SubSeq(lines, M[i], last(i))
             /\ blocks[i].lines[1] = lines[M[i]]

\* a finished scan that dropped a header line and split the rest over two
\* blocks, the first of them holding more than its identifier line
C9_Witness ==
  /\ seg_pc = "done"
  /\ Len(lines) = 4
  /\ m_course(lines[1]) = <<>>
  /\ Len(blocks) = 2
  /\ Len(blocks[1].lines) = 2

-----------------------------------------------------------------------------
(* Claims about render_text (checked under SpecRender) *)

AllEmpty(d, keys) == \A k \in keys : Has(d, k) => ~Truthy(d[k])

\* every optional field of participant p is empty or absent
AllOptionalEmpty(p) ==
  /\ LET jt == SubDict(p, "joinType")
     IN  /\ AllEmpty(SubDict(jt, "meet"), {"place", "datetime"})
         /\ AllEmpty(SubDict(jt, "flight"), {"arrive", "depart"})
         /\ AllEmpty(jt, {"transfer"})
  /\ AllEmpty(SubDict(p, "airline"), {"meal", "assist", "carryOn", "arrivalImpact"})
  /\ AllEmpty(SubDict(p, "gearSizes"), {"top", "bottom", "shoes", "height_cm", "weight_kg"})
  /\ \A k \in {"roomingRQ", "optionalRQ", "celebration", "otherGroup"} : ListOf(p, k) = <<>>
  /\ AllEmpty(p, {"meal_allergy", "medical", "scheduleImpact", "busSeating"})

\* the participant the loop handled last
rn_handled == rn_course["participants"][rn_k - 1]

\* C10 (as claimed): for a participant all of whose optional fields are empty
\* or absent, render_text appends exactly the identity header line and the
\* blank separator line.
C10_RenderOmission ==
  (rn_pc # "idle" /\ rn_k > 1 /\ AllOptionalEmpty(rn_handled)) =>
    rn_last = << header_line(rn_course, rn_handled), <<>> >>

-----------------------------------------------------------------------------
(* Claims about process_text (checked under Spec) *)

LastCall == calls[Len(calls)]

Rendered == \E j \in 1..Len(calls) : calls[j].op = "render"

\* some pattern of NG_PATTERNS matches t
HasNg(t) == \E k \in 1..Len(NG_PATTERNS) : re_search(NG_PATTERNS[k], t)

Contains(t, sub) == \E i \in 1..(Len(t) - Len(sub) + 1) : SubSeq(t, i, i + Len(sub) - 1) = sub

\* C1: a text that process_text returns, or that main prints, matches no
\* pattern of NG_PATTERNS; and once the rendered text matches a pattern the
\* run ends Fatal and no text is returned or printed.
C1_NoForbiddenText ==
  /\ \A i \in 1..Len(ret) : ~HasNg(ret[i])
  /\ \A i \in 1..Len(stdout) : ~HasNg(stdout[i])
  /\ (Rendered /\ HasNg(text) /\ pc # "filter") =>
       (pc = "Fatal" /\ ret = None /\ stdout = None)

\* a run whose rendered text holds JR as a word has ended Fatal, nothing returned
C1_Witness ==
  /\ pc = "Fatal"
  /\ Rendered
  /\ re_search(NG_PATTERNS[7], text)
  /\ ret = None

\* a call for a block that raised: extraction, schema validation, review
IsBlockFailure(c) == c.out = "raise" /\ c.op \in {"extract", "validate", "review"}

\* C2: when the extraction, the schema validation or the review of block k
\* fails, that call is the last call of the run: the run is Fatal, no call
\* was made for a later block, render_text and the filter were never called,
\* and no text was rendered, returned or printed.
C2_FailWholeBatch ==
  \A j \in 1..Len(calls) :
    IsBlockFailure(calls[j]) =>
      /\ j = Len(calls)
      /\ pc = "Fatal"
      /\ \A i \in 1..Len(calls) :
           calls[i].op \notin {"render", "filter"} /\ calls[i].idx <= calls[j].idx
      /\ text = <<>> /\ ret = None /\ stdout = None

\* the validation of the first of two blocks failed and the run is over
C2_Witness ==
  /\ pc = "Fatal"
  /\ Len(p_blocks) = 2
  /\ calls # <<>>
  /\ IsBlockFailure(LastCall)
  /\ LastCall.op = "validate"
  /\ LastCall.idx = 1

NotDigits(d, k) == Has(d, k) => ~(IsStr(d[k]) /\ isdigit(d[k][2]))

\* what the repair sequence leaves of a course: no alias key, no status key
\* in an optionalRQ entry, no digit string in no or pax
RepairedCourse(c) ==
  /\ DOMAIN c \cap AliasKeys = {}
  /\ \A i \in 1..Len(ListOf(c, "participants")) :
       LET q == c["participants"][i]
       IN  /\ NotDigits(q, "no")
           /\ \A j \in 1..Len(ListOf(q, "optionalRQ")) :
                /\ ~Has(q["optionalRQ"][j], "status")
                /\ NotDigits(q["optionalRQ"][j], "pax")

\* C6 (as claimed): in every configuration the courses folded into the
\* aggregate, which are the courses handed to render_text, are repaired ones.
C6_AlwaysRepaired ==
  \A i \in 1..Len(all_courses) : RepairedCourse(all_courses[i])

\* the document the extraction returned for block i
ExtractedDoc(i) ==
  calls[CHOOSE j \in 1..Len(calls) :
          calls[j].op = "extract" /\ calls[j].idx = i /\ calls[j].out = "ok"].val

RECURSIVE CoursesOf(_)
\* the courses of the documents of blocks 1..n as validate_schema leaves them
CoursesOf(n) ==
  IF n = 0 THEN <<>>
  ELSE CoursesOf(n - 1) \o ListOf(validated(schema_loaded, ExtractedDoc(n)), "courses")

\* C7: the aggregate, the terminal state and the returned text are fixed by
\* the configuration, the input and what the extraction returned, whatever
\* the review results are: every block whose review returned has its courses
\* in the aggregate, a Success returns the rendering of the courses of all
\* blocks, and a run is Fatal only after a call that raised (the filter on a
\* forbidden term included), never after a review that returned.
C7_ReviewAdvisory ==
  /\ all_courses = CoursesOf(Len(all_reviews))
  /\ Len(all_reviews) =
       Cardinality({j \in 1..Len(calls) : calls[j].op = "review" /\ calls[j].out = "ok"})
  /\ pc = "Success" =>
       /\ Len(all_reviews) = Len(p_blocks)
       /\ ret = Some(render_text([courses |-> CoursesOf(Len(p_blocks))]))
  /\ pc = "Fatal" =>
       /\ LastCall.out = "raise"
       /\ LastCall.op = "filter" => HasNg(render_text([courses |-> CoursesOf(Len(p_blocks))]))

\* a run of two blocks in which a review answered ok = false ended in Success
\* with a text
C7_Witness ==
  /\ pc = "Success"
  /\ Len(all_reviews) = 2
  /\ ~review_ok(all_reviews[1].review)
  /\ review_ok(all_reviews[2].review)
  /\ ret # Some(<<>>)

\* C8 (as claimed): when the extraction call or the review call of a block
\* raises, the message of the error that ends the run holds the block's
\* course identifier.
C8_FailureNamesCourse ==
  (pc = "Fatal" /\ LastCall.out = "raise" /\ LastCall.op \in {"extract", "review"}) =>
    Contains(error[1].msg, course_no_of(p_blocks, LastCall.idx))

RECURSIVE TextLines(_)
\* the lines of a text: what lies between its line feeds
TextLines(t) ==
  IF \A i \in 1..Len(t) : t[i] # "NL" THEN <<t>>
  ELSE LET i == CHOOSE i \in 1..Len(t) : t[i] = "NL" /\ \A j \in 1..(i - 1) : t[j] # "NL"
       IN  <<SubSeq(t, 1, i - 1)>> \o TextLines(SubSeq(t, i + 1, Len(t)))

StartsWith(t, pre) == Len(pre) <= Len(t) /\ SubSeq(t, 1, Len(pre)) = pre

\* a course header, a course line or the identity line of a participant
IsHeading(ln) == ln = L.tour \/ StartsWith(ln, L.course) \/ Contains(ln, L.inq)

\* the headings of a course list: per course its header, its course line and
\* the identity lines of its participants
Headings(courses) ==
  Flatten([i \in 1..Len(courses) |->
             <<L.tour, course_head(courses[i])[2]>>
               \o [j \in 1..Len(ListOf(courses[i], "participants")) |->
                     header_line(courses[i], courses[i]["participants"][j])]])

RECURSIVE BlockCourses(_)
\* the courses of the documents of blocks 1..n, in block order, as they are
\* when the loop of process_text is done with each block
BlockCourses(n) ==
  IF n = 0 THEN <<>>
  ELSE BlockCourses(n - 1)
         \o ListOf(IF schema_loaded THEN Repair(ExtractedDoc(n)) ELSE ExtractedDoc(n),
                   "courses")

\* C11: in a successful run the course list handed to render_text is the
\* concatenation, in block order, of the courses of each block's document;
\* the returned text has one course header per aggregated course, and its
\* course lines and participant identity lines come in the order of the
\* aggregated courses and of their participants.
C11_OrderPreserved ==
  pc = "Success" =>
    /\ all_courses = BlockCourses(Len(p_blocks))
    /\ Len(SelectSeq(TextLines(ret[1]), LAMBDA ln : ln = L.tour)) = Len(all_courses)
    /\ SelectSeq(TextLines(ret[1]), IsHeading) = Headings(all_courses)

\* a successful run of two blocks whose documents differ and hold three
\* courses in all, the first block's two courses not in identifier order
C11_Witness ==
  /\ pc = "Success"
  /\ Len(p_blocks) = 2
  /\ Len(all_courses) = 3
  /\ ExtractedDoc(1) # ExtractedDoc(2)
  /\ all_courses[1]["courseNo"] # all_courses[2]["courseNo"]
  /\ Len(SelectSeq(TextLines(ret[1]), IsHeading)) = 9

\* no line of the input matches the course identifier pattern
NoIdentifierLine == \A i \in 1..Len(in_lines) : m_course(in_lines[i]) = <<>>

\* C12: a run whose input is empty or has no identifier line segments into
\* zero blocks, calls neither the extraction, the validation nor the review,
\* renders the empty text, which passes the filter, and is never Fatal: it
\* ends in Success with the empty text.
C12_ZeroBlocksNotFatal ==
  (NoIdentifierLine /\ pc # "start") =>
    /\ p_blocks = <<>>
    /\ all_courses = <<>>
    /\ \A j \in 1..Len(calls) : calls[j].op \in {"render", "filter"} /\ calls[j].out = "ok"
    /\ text = <<>>
    /\ ~contains_ng_terms(text)
    /\ pc \in {"render", "filter", "Success"}
    /\ error = None
    /\ pc = "Success" => ret = Some(<<>>)

\* a run on a header line alone has ended in Success with the empty text
C12_Witness ==
  /\ pc = "Success"
  /\ in_lines # <<>>
  /\ NoIdentifierLine
  /\ p_blocks = <<>>
  /\ ret = Some(<<>>)

-----------------------------------------------------------------------------
(* Claims about the repair sequence, continued (checked under SpecRepair) *)

\* the participants of a course of the original document: those of the
\* course, or else those nested in its period
OrigParticipants(c) ==
  IF Has(c, "participants") THEN c["participants"]
  ELSE IF Has(c, "period") /\ Has(c["period"], "participants")
       THEN c["period"]["participants"]
       ELSE <<>>

\* the integer of an all-digit string, any other value as it is
IntegerOf(v) == IF IsStr(v) /\ isdigit(v[2]) THEN Num(int(v[2])) ELSE v

\* entry e1 is entry e0 without its status key and with pax an integer when
\* it was an all-digit string
RepairedEntry(e0, e1) ==
  /\ DOMAIN e1 = DOMAIN e0 \ {"status"}
  /\ \A k \in DOMAIN e1 : e1[k] = IF k = "pax" THEN IntegerOf(e0[k]) ELSE e0[k]

\* participant q1 is participant q0 with no an integer when it was an
\* all-digit string and with every optionalRQ entry repaired
RepairedNumbers(q0, q1) ==
  /\ Has(q1, "no") = Has(q0, "no")
  /\ Has(q0, "no") => q1["no"] = IntegerOf(q0["no"])
  /\ Has(q1, "optionalRQ") = Has(q0, "optionalRQ")
  /\ Len(ListOf(q1, "optionalRQ")) = Len(ListOf(q0, "optionalRQ"))
  /\ \A k \in 1..Len(ListOf(q0, "optionalRQ")) :
       RepairedEntry(q0["optionalRQ"][k], q1["optionalRQ"][k])

-----------------------------------------------------------------------------
(* Claims about process_text, continued (checked under Spec) *)

\* C14 (as claimed): after validate_schema has returned or failed, the
\* document it was given is equal to what it was before the call.
C14_ValidationKeepsInput ==
  (calls # <<>> /\ LastCall.op = "validate") => extracted = ExtractedDoc(LastCall.idx)

\* C14 (amended): validate_schema changes the document it is given by the
\* repair sequence and by nothing else: after it has returned or failed the
\* document is what the repair sequence makes of it in place when a schema is
\* loaded, and is as it was when no schema is loaded.
C14_ValidationRepairsInPlace ==
  (calls # <<>> /\ LastCall.op = "validate") =>
    extracted = IF schema_loaded THEN Repair(ExtractedDoc(LastCall.idx))
                ELSE ExtractedDoc(LastCall.idx)

\* validate_schema has returned, with a schema loaded, on a document the
\* repair sequence changes
C14_Witness ==
  /\ calls # <<>>
  /\ LastCall.op = "validate"
  /\ LastCall.out = "ok"
  /\ schema_loaded
  /\ extracted # ExtractedDoc(LastCall.idx)
  /\ extracted = Repair(extracted)

\* the forbidden term for a seat (座席)
SeatTerm == <<"u5ea7", "u5e2d">>

\* some participant of the aggregate has a non-empty busSeating
HasBusSeating ==
  \E i \in 1..Len(all_courses) :
    \E j \in 1..Len(ListOf(all_courses[i], "participants")) :
      Truthy(Get(all_courses[i]["participants"][j], "busSeating"))

\* C15: the label of the bus seating line holds the forbidden term for a
\* seat; so once a course list with a non-empty busSeating is rendered the
\* text holds that term and the run ends Fatal with nothing returned, and a
\* run in Success has no non-empty busSeating in its aggregate.
C15_BusSeatingIsFatal ==
  /\ Contains(L.bus, SeatTerm)
  /\ (Rendered /\ HasBusSeating) =>
       /\ Contains(text, L.bus)
       /\ pc \in {"filter", "Fatal"}
       /\ ret = None /\ stdout = None
  /\ pc = "Success" => ~HasBusSeating

\* a run whose only forbidden text is the label of a bus seating line has
\* ended Fatal on the seat term
C15_Witness ==
  /\ pc = "Fatal"
  /\ Rendered
  /\ HasBusSeating
  /\ LastCall.op = "filter"
  /\ error[1].hits = {SeatTerm}

====
